---- MODULE Spec2Model ----
(***************************************************************************)
(* Arithmetic of FieldElement over the prime field with                    *)
(* PRIME = 2^64 - 2^32 + 1 (src/src/field_element/mod.rs).                 *)
(*                                                                         *)
(* TLC's integers are 32 bits wide, so a u64 is held as four 16-bit limbs, *)
(* least significant limb first, and a u128 as eight.  Every u64 / u128    *)
(* primitive the source uses (overflowing_add, overflowing_sub,            *)
(* wrapping_add, wrapping_sub, %, <<, >>, the u128 product, the `as`       *)
(* casts, to_le_bytes, from_le_bytes) is written out on limbs with its     *)
(* exact width, so that carries, borrows and wrap-arounds are the ones the *)
(* machine produces.                                                       *)
(***************************************************************************)
EXTENDS Integers, Sequences, FiniteSets, TLC

\* ------------------------------------------------------------------ limbs
\* One limb holds 16 bits.
W == 256 * 256

\* The limbs of u64 and u128 values.
Limb == 0 .. (W - 1)

Zero64 == <<0, 0, 0, 0>>


\* A u64 whose value is the small number n (n < 2^16).
Small(n) == <<n, 0, 0, 0>>

\* x + y + c on limb sequences of equal length; the last element of the
\* result is the carry out.
RECURSIVE AddC(_, _, _)
AddC(x, y, c) ==
    IF x = <<>> THEN <<c>>
    ELSE LET s == Head(x) + Head(y) + c
         IN  <<s % W>> \o AddC(Tail(x), Tail(y), s \div W)

\* x - y - b on limb sequences of equal length; the last element of the
\* result is the borrow out.
RECURSIVE SubB(_, _, _)
SubB(x, y, b) ==
    IF x = <<>> THEN <<b>>
    ELSE LET d == Head(x) - Head(y) - b
         IN  IF d < 0 THEN <<d + W>> \o SubB(Tail(x), Tail(y), 1)
                      ELSE <<d>> \o SubB(Tail(x), Tail(y), 0)

\* u64::overflowing_add
overflowing_add(x, y) ==
    LET s == AddC(x, y, 0)
    IN  [val |-> SubSeq(s, 1, 4), flag |-> (s[5] = 1)]

\* u64::overflowing_sub
overflowing_sub(x, y) ==
    LET d == SubB(x, y, 0)
    IN  [val |-> SubSeq(d, 1, 4), flag |-> (d[5] = 1)]

\* u64::wrapping_add
wrapping_add(x, y) == overflowing_add(x, y).val

\* u64::wrapping_sub
wrapping_sub(x, y) == overflowing_sub(x, y).val

\* x < y and x >= y on limb sequences of equal length.
Lt(x, y) == SubB(x, y, 0)[Len(x) + 1] = 1

Ge(x, y) == ~Lt(x, y)

\* u64 `%`: the remainder of v by m (m > 0), by repeated subtraction.
RECURSIVE Rem(_, _)
Rem(v, m) == IF Lt(v, m) THEN v ELSE Rem(SubSeq(SubB(v, m, 0), 1, Len(v)), m)

\* `m * (flag as u64)`: the bool cast is 0 or 1.
MulFlag(m, flag) == IF flag THEN m ELSE Zero64

\* The 32-bit product of two limbs as <<low limb, high limb>>.
MulLimb(a, b) ==
    LET p0 == a * (b % 256)
        p1 == a * (b \div 256)
        t  == p0 + (p1 % 256) * 256
    IN  <<t % W, (p1 \div 256) + (t \div W)>>

\* x * d + c for a limb sequence x and limbs d, c: Len(x) + 1 limbs.
RECURSIVE MulRow(_, _, _)
MulRow(x, d, c) ==
    IF x = <<>> THEN <<c>>
    ELSE LET p == MulLimb(Head(x), d)
             s == p[1] + c
         IN  <<s % W>> \o MulRow(Tail(x), d, p[2] + (s \div W))

\* x zero-extended to n limbs.
RECURSIVE Pad(_, _)
Pad(x, n) == IF Len(x) >= n THEN x ELSE Pad(Append(x, 0), n)

\* row + rest * 2^16, where rest has Len(row) - 1 limbs or more and the sum
\* fits 1 + Len(rest) limbs.
AddShifted(row, rest) ==
    <<row[1]>> \o SubSeq(AddC(Pad(Tail(row), Len(rest)), rest, 0), 1, Len(rest))

\* The full product of limb sequences x and y: Len(x) + Len(y) limbs.
RECURSIVE MulFull(_, _)
MulFull(x, y) ==
    IF y = <<>> THEN Pad(<<>>, Len(x))
    ELSE AddShifted(MulRow(x, Head(y), 0), MulFull(x, Tail(y)))

\* `(a as u128) * (b as u128)` for u64 a and b: the u128 product of the
\* zero-extended operands, which always fits 128 bits.
widening_mul(a, b) == MulFull(a, b)

\* `x as u64` for a u128 x: the low 64 bits.
as_u64(x) == SubSeq(x, 1, 4)

\* `(x >> 64) as u64` for a u128 x: the high 64 bits.
shr64_as_u64(x) == SubSeq(x, 5, 8)

\* `(v as u32) as u64` for a u64 v: the low 32 bits, zero-extended.
as_u32_as_u64(v) == <<v[1], v[2], 0, 0>>

\* `v >> 32` for a u64 v.
shr32(v) == <<v[3], v[4], 0, 0>>

\* `v << 32` for a u64 v: the bits shifted out of the 64 are dropped.
shl32(v) == <<0, 0, v[1], v[2]>>

\* `v >> 1` for a u64 v.
shr1(v) ==
    <<(v[1] \div 2) + (v[2] % 2) * (W \div 2),
      (v[2] \div 2) + (v[3] % 2) * (W \div 2),
      (v[3] \div 2) + (v[4] % 2) * (W \div 2),
      v[4] \div 2>>

\* `v & 1` for a u64 v.
and1(v) == v[1] % 2

\* -------------------------------------------------------------- constants
\* PRIME = 0xFFFFFFFF00000001 = 2^64 - 2^32 + 1.
PRIME == <<1, 0, W - 1, W - 1>>

ZERO == [value |-> Zero64]

ONE == [value |-> Small(1)]

\* --------------------------------------------------------- FieldElement
new(value) == [value |-> Rem(value, PRIME)]

\* add with the carry of the 64-bit addition dropped.
add_ignoring_carry(self, other) ==
    new(overflowing_add(self.value, other.value).val)

add(self, other) ==
    LET oa == overflowing_add(self.value, other.value)
    IN  new(wrapping_sub(oa.val, MulFlag(PRIME, oa.flag)))

double(self) ==
    LET oa == overflowing_add(self.value, self.value)
    IN  new(wrapping_sub(oa.val, MulFlag(PRIME, oa.flag)))

\* sub with the borrow of the 64-bit subtraction dropped.
sub_ignoring_borrow(self, other) ==
    new(overflowing_sub(self.value, other.value).val)

sub(self, other) ==
    LET os == overflowing_sub(self.value, other.value)
    IN  new(wrapping_add(os.val, MulFlag(PRIME, os.flag)))

\* neg without the special case of zero.
neg_without_zero_case(self) == [value |-> wrapping_sub(PRIME, self.value)]

neg(self) ==
    IF self.value = Zero64 THEN [value |-> self.value]
    ELSE [value |-> wrapping_sub(PRIME, self.value)]

\* reduce_steps with PRIME not added back after a borrow of low - high.
reduce_steps_without_borrow_fix(x) ==
    LET low         == as_u64(x)
        middle_high == shr64_as_u64(x)
        middle      == as_u32_as_u64(middle_high)
        high        == shr32(middle_high)
        d0          == overflowing_sub(low, high)
        diff        == d0.val
        shifted     == shl32(middle)
        p0          == overflowing_sub(shifted, middle)
        r0          == overflowing_add(diff, p0.val)
    IN  [low |-> low, middle |-> middle, high |-> high,
         under |-> d0.flag, diff |-> diff,
         product_overflow |-> (middle[3] # 0 \/ middle[4] # 0 \/ p0.flag),
         product |-> p0.val,
         over |-> r0.flag,
         result |-> wrapping_sub(r0.val, MulFlag(PRIME, r0.flag))]

\* The intermediate values of reduce(x), x a u128.
reduce_steps(x) ==
    LET low         == as_u64(x)
        middle_high == shr64_as_u64(x)
        middle      == as_u32_as_u64(middle_high)
        high        == shr32(middle_high)
        d0          == overflowing_sub(low, high)
        diff        == wrapping_add(d0.val, MulFlag(PRIME, d0.flag))
        shifted     == shl32(middle)
        p0          == overflowing_sub(shifted, middle)
        r0          == overflowing_add(diff, p0.val)
    IN  [low |-> low, middle |-> middle, high |-> high,
         under |-> d0.flag, diff |-> diff,
         \* `middle << 32` lost bits, or the subtraction went below zero
         product_overflow |-> (middle[3] # 0 \/ middle[4] # 0 \/ p0.flag),
         product |-> p0.val,
         over |-> r0.flag,
         result |-> wrapping_sub(r0.val, MulFlag(PRIME, r0.flag))]

reduce(x) == reduce_steps(x).result

\* mul trusting reduce to return a canonical value.
mul_without_new(self, other) ==
    [value |-> reduce(widening_mul(self.value, other.value))]

mul(self, other) == new(reduce(widening_mul(self.value, other.value)))

square(self) == mul(self, self)

cube(self) == mul(square(self), self)

\* Rust computes a value where it is bound; Computed(v) makes TLC compute v
\* there too, before the expressions that follow use it.
Computed(v) == v = v

\* A FieldElement together with the number of calls of Mul::mul that the
\* operation under way has made to compute it.
Run(result, muls) == [result |-> result, muls |-> muls]

\* `t.square()` and `t * other` on a counted element: one call of Mul::mul
\* each.
then_square(t) == CASE Computed(t) -> Run(square(t.result), t.muls + 1)

then_mul(t, other) == CASE Computed(t) -> Run(mul(t.result, other), t.muls + 1)

\* `self * t` for a counted t.
mul_by(self, t) == CASE Computed(t) -> Run(mul(self, t.result), t.muls + 1)

\* The `for _ in 0..N` loop of exp_acc; st holds the squarings left, n,
\* and the loop's variable result.
RECURSIVE square_times(_)
square_times(st) ==
    IF st.n = 0 THEN st.result
    ELSE square_times([n |-> st.n - 1, result |-> then_square(st.result)])

\* exp_acc on a counted base.
exp_acc_run(N, base, tail) ==
    then_mul(square_times([n |-> N, result |-> base]), tail)

exp_acc(N, base, tail) == exp_acc_run(N, Run(base, 0), tail).result

\* The `while pow_val > 0` loop of exp; st holds the loop's variables
\* base, res and pow_val, and the calls of Mul::mul made so far.
RECURSIVE exp_loop(_)
exp_loop(st) ==
    IF st.pow_val = Zero64 THEN Run(st.res, st.muls)
    ELSE LET base == square(st.base)
         IN  exp_loop([base    |-> base,
                       res     |-> IF and1(st.pow_val) = 1
                                   THEN mul(st.res, base) ELSE st.res,
                       pow_val |-> shr1(st.pow_val),
                       muls    |-> st.muls + 1 + and1(st.pow_val)])

\* exp with the accumulator seeded with ONE whatever bit 0 of pow is.
exp_run_ignoring_low_bit(self, pow) ==
    IF pow = ZERO THEN Run(ONE, 0)
    ELSE IF self = ZERO THEN Run(ZERO, 0)
    ELSE exp_loop([base    |-> self,
                   res     |-> ONE,
                   pow_val |-> shr1(pow.value),
                   muls    |-> 0])

\* exp, with the number of calls of Mul::mul it made.
exp_run(self, pow) ==
    IF pow = ZERO THEN Run(ONE, 0)
    ELSE IF self = ZERO THEN Run(ZERO, 0)
    ELSE exp_loop([base    |-> self,
                   res     |-> IF and1(pow.value) = 1 THEN self ELSE ONE,
                   pow_val |-> shr1(pow.value),
                   muls    |-> 0])

exp(self, pow) == exp_run(self, pow).result

\* cube is `self.square().mul(*self)`.
cube_run(self) == then_mul(then_square(Run(self, 0)), self)

\* inv is a sequence of `let` bindings.  Each operator below is inv from one
\* binding on, given the counted values bound before it (t6 excepted, which
\* the later bindings only multiply by).

inv_from_t63(self, t63) == then_mul(then_square(t63), self)

\* inv squaring t31 thirty-one times, as the comment above that binding
\* says, where the code squares it thirty-two times.
inv_from_t31_squaring_31_times(self, t31) ==
    CASE Computed(t31) -> inv_from_t63(self, exp_acc_run(31, t31, t31.result))

inv_from_t31(self, t31) ==
    CASE Computed(t31) -> inv_from_t63(self, exp_acc_run(32, t31, t31.result))

inv_from_t30(self, t30) ==
    CASE Computed(t30) -> inv_from_t31(self, then_mul(then_square(t30), self))

\* inv squaring t24 seven times, as the comment above that binding says,
\* where the code squares it six times.
inv_from_t24_squaring_seven_times(self, t6, t24) ==
    CASE Computed(t24) -> inv_from_t30(self, exp_acc_run(7, t24, t6))

inv_from_t24(self, t6, t24) ==
    CASE Computed(t24) -> inv_from_t30(self, exp_acc_run(6, t24, t6))

inv_from_t12(self, t6, t12) ==
    CASE Computed(t12) -> inv_from_t24(self, t6, exp_acc_run(12, t12, t12.result))

inv_from_t6(self, t6) ==
    CASE Computed(t6) -> inv_from_t12(self, t6.result, exp_acc_run(6, t6, t6.result))

inv_from_t3(self, t3) ==
    CASE Computed(t3) -> inv_from_t6(self, exp_acc_run(3, t3, t3.result))

inv_from_t2(self, t2) ==
    CASE Computed(t2) -> inv_from_t3(self, then_mul(then_square(t2), self))

\* inv, with the number of calls of Mul::mul it made.
inv_run(self) == inv_from_t2(self, cube_run(self))

inv(self) == inv_run(self).result

\* div is `self * other.inv()`.
div_run(self, other) == mul_by(self, inv_run(other))

div(self, other) == div_run(self, other).result

\* ------------------------------------------------- reference arithmetic
\* The mathematical meaning of "mod PRIME", by schoolbook long division in
\* base 2^16: it uses none of the identities (2^64 = 2^32 - 1, 2^96 = -1
\* mod PRIME) that reduce relies on.
PRIME5 == PRIME \o <<0>>

\* (r * 2^16 + limb) mod PRIME for r < PRIME.  The top limb q of
\* t = r * 2^16 + limb never exceeds the true quotient (PRIME < 2^64), so
\* t - q * PRIME >= 0, and what is left is brought below PRIME by Rem.
DivStep(r, limb) ==
    LET t == <<limb>> \o r
        d == SubB(t, MulRow(PRIME, t[5], 0), 0)
    IN  SubSeq(Rem(SubSeq(d, 1, 5), PRIME5), 1, 4)

RECURSIVE RefModAcc(_)
RefModAcc(st) ==
    IF st.x = <<>> THEN st.r
    ELSE RefModAcc([x |-> SubSeq(st.x, 1, Len(st.x) - 1),
                    r |-> DivStep(st.r, st.x[Len(st.x)])])

\* x mod PRIME for a limb sequence x of any length, as a u64.
RefMod(x) == RefModAcc([x |-> x, r |-> Zero64])

\* (a * b) mod PRIME.
RefMulMod(a, b) == RefMod(MulFull(a, b))

\* Bit k (0 the least significant) of the u64 n.
BitAt(n, k) == (n[(k \div 16) + 1] \div (2 ^ (k % 16))) % 2

\* a^n mod PRIME, most significant bit of n first (left-to-right binary
\* exponentiation): st.acc holds a^(the bits of n above bit st.k).
RECURSIVE RefPowLoop(_)
RefPowLoop(st) ==
    IF st.k = 0 THEN st.acc
    ELSE LET sq == RefMulMod(st.acc, st.acc)
         IN  RefPowLoop([acc |-> IF BitAt(st.n, st.k - 1) = 1
                                 THEN RefMulMod(sq, st.a) ELSE sq,
                         a |-> st.a, n |-> st.n, k |-> st.k - 1])

RefPow(a, n) == RefPowLoop([acc |-> Small(1), a |-> a, n |-> n, k |-> 64])

\* ---------------------------------------------------------- serialization
\* u64::to_le_bytes: the eight bytes of v, least significant byte first.
to_le_bytes(v) ==
    <<v[1] % 256, v[1] \div 256, v[2] % 256, v[2] \div 256,
      v[3] % 256, v[3] \div 256, v[4] % 256, v[4] \div 256>>

\* u64::from_le_bytes
from_le_bytes(arr) ==
    <<arr[1] + 256 * arr[2], arr[3] + 256 * arr[4],
      arr[5] + 256 * arr[6], arr[7] + 256 * arr[8]>>

to_bytes(self) == to_le_bytes(self.value)

\* Result<FieldElement, FieldError>
Ok(fe) == [ok |-> TRUE, fe |-> fe]

Err(e) == [ok |-> FALSE, err |-> e]

\* from_bytes reducing an out-of-range value instead of rejecting it.
from_bytes_reducing(arr) ==
    LET value == from_le_bytes(arr)
    IN  Ok(new(value))

from_bytes(arr) ==
    LET value == from_le_bytes(arr)
    IN  IF Ge(value, PRIME) THEN Err("DeserializationError")
        ELSE Ok(new(value))

try_from(bytes) == from_bytes(bytes)

\* ------------------------------------------------------------ the machine
\* A caller holds one FieldElement, self, and applies the operations of the
\* type to it one after the other.
VARIABLES
    self,   \* the FieldElement the caller holds
    args,   \* the operands of the last operation: <<self before>>, or <<self before, other>>
    op,     \* the name of the last operation
    buf,    \* the byte array last returned by to_bytes or handed to from_bytes
    res,    \* the Result last returned by from_bytes / try_from, None before
    steps,  \* the operations applied so far
    muls    \* the calls of Mul::mul the last operation made

vars == <<self, args, op, buf, res, steps, muls>>

\* Longest sequence of operations modelled.
MaxSteps == 2

\* exp, inv and div, which run tens of multiplications each, are modelled
\* within the first MaxPowSteps operations of a sequence.
MaxPowSteps == 1

Pow2_63 == <<0, 0, 0, W \div 2>>

\* 2^64 - 1
MaxU64 == <<W - 1, W - 1, W - 1, W - 1>>

\* u64 arguments of new / From<u64>: below, at and above PRIME.
RawValues ==
    {Small(15), wrapping_sub(Pow2_63, Small(1)), wrapping_sub(PRIME, Small(1)),
     PRIME, MaxU64}

\* Second operands of the binary operators.
Operands ==
    {ZERO, ONE, new(Small(35)), new(wrapping_sub(PRIME, Small(2))),
     new(wrapping_sub(PRIME, Small(1)))}

\* Exponents handed to exp in a sequence of operations.
Exponents == {ZERO, ONE, new(Small(6))}

\* Inputs of exp, inv and div when they are checked on their own.
PowBases ==
    {ZERO, ONE, new(Small(2)), new(Small(5)), new(Small(69)),
     new(<<0, 0, 1, 0>>), new(wrapping_sub(Pow2_63, Small(1))),
     new(wrapping_sub(PRIME, Small(1)))}

PowExponents ==
    {ZERO, ONE, new(Small(2)), new(Small(3)), new(Small(6)), new(Small(7)),
     new(<<1, 1, 0, 0>>), new(<<0, 0, 1, 0>>),
     new(wrapping_sub(PRIME, Small(2))), new(wrapping_sub(PRIME, Small(1)))}

PowDivisors ==
    {ONE, new(Small(5)), new(wrapping_sub(PRIME, Small(1)))}

None == [ok |-> FALSE, err |-> "None"]

ZeroBytes == <<0, 0, 0, 0, 0, 0, 0, 0>>

\* The byte arrays of test_to_bytes and test_from_bytes, and the
\* little-endian encodings of PRIME - 1 and PRIME.
TestBuffers ==
    {<<255, 255, 255, 255, 0, 0, 0, 0>>, <<255, 255, 255, 255, 0, 0, 0, 1>>,
     <<0, 0, 0, 0, 255, 255, 255, 255>>, <<1, 0, 0, 0, 255, 255, 255, 255>>}

\* Byte arrays around the edges of the canonical range, for from_bytes when
\* it is checked on its own.
EdgeBuffers ==
    TestBuffers \cup
    {<<0, 0, 0, 0, 0, 0, 0, 0>>, <<1, 0, 0, 0, 0, 0, 0, 0>>,
     <<0, 0, 0, 0, 0, 0, 0, 1>>, <<0, 0, 0, 0, 1, 0, 0, 0>>,
     <<0, 0, 0, 0, 0, 0, 0, 255>>, <<0, 0, 0, 0, 255, 255, 255, 127>>,
     <<1, 0, 0, 0, 254, 255, 255, 255>>, <<255, 255, 255, 255, 254, 255, 255, 255>>,
     <<2, 0, 0, 0, 255, 255, 255, 255>>, <<0, 1, 0, 0, 255, 255, 255, 255>>,
     <<0, 0, 0, 1, 255, 255, 255, 255>>, <<255, 255, 255, 255, 255, 255, 255, 255>>}

Init ==
    /\ \E raw \in RawValues : self = new(raw)
    /\ args = <<>>
    /\ op = "new"
    /\ buf = ZeroBytes
    /\ res = None
    /\ steps = 0
    /\ muls = 0

\* The operation `name` replaced self by the counted element `run`;
\* `operands` were its inputs.
Apply(name, operands, run) ==
    /\ self' = run.result
    /\ muls' = run.muls
    /\ args' = operands
    /\ op' = name
    /\ steps' = steps + 1
    /\ UNCHANGED <<buf, res>>

New == \E raw \in RawValues :
    /\ steps < MaxSteps
    /\ Apply("new", <<>>, Run(new(raw), 0))

\* From<u64>, From<u32>, From<u16>, From<u8>: `Self::new(x as u64)`.
FromU64 == \E x \in RawValues :
    /\ steps < MaxSteps
    /\ Apply("new", <<>>, Run(new(x), 0))

FromU32 == \E x \in {<<W - 1, W - 1>>} :
    /\ steps < MaxSteps
    /\ Apply("new", <<>>, Run(new(<<x[1], x[2], 0, 0>>), 0))

FromU16 == \E x \in {W - 1} :
    /\ steps < MaxSteps
    /\ Apply("new", <<>>, Run(new(<<x, 0, 0, 0>>), 0))

FromU8 == \E x \in {0, 255} :
    /\ steps < MaxSteps
    /\ Apply("new", <<>>, Run(new(<<x, 0, 0, 0>>), 0))

Add == \E other \in Operands :
    /\ steps < MaxSteps
    /\ Apply("add", <<self, other>>, Run(add(self, other), 0))

AddAssign == \E other \in Operands :
    /\ steps < MaxSteps
    /\ Apply("add", <<self, other>>, Run(add(self, other), 0))

Sub == \E other \in Operands :
    /\ steps < MaxSteps
    /\ Apply("sub", <<self, other>>, Run(sub(self, other), 0))

SubAssign == \E other \in Operands :
    /\ steps < MaxSteps
    /\ Apply("sub", <<self, other>>, Run(sub(self, other), 0))

Mul == \E other \in Operands :
    /\ steps < MaxSteps
    /\ Apply("mul", <<self, other>>, then_mul(Run(self, 0), other))

MulAssign == \E other \in Operands :
    /\ steps < MaxSteps
    /\ Apply("mul", <<self, other>>, then_mul(Run(self, 0), other))

Neg ==
    /\ steps < MaxSteps
    /\ Apply("neg", <<self>>, Run(neg(self), 0))

Double ==
    /\ steps < MaxSteps
    /\ Apply("double", <<self>>, Run(double(self), 0))

Square ==
    /\ steps < MaxSteps
    /\ Apply("square", <<self>>, then_square(Run(self, 0)))

Cube ==
    /\ steps < MaxSteps
    /\ Apply("cube", <<self>>, cube_run(self))

\* The caller must never hand ZERO to inv (debug_assert), nor divide by it.
Inv ==
    /\ steps < MaxPowSteps
    /\ self # ZERO
    /\ Apply("inv", <<self>>, inv_run(self))

DivBy(divisors) == \E other \in divisors :
    /\ steps < MaxPowSteps
    /\ other # ZERO
    /\ Apply("div", <<self, other>>, div_run(self, other))

Div == DivBy(Operands)

DivAssign == DivBy(Operands)

ExpTo(exponents) == \E pow \in exponents :
    /\ steps < MaxPowSteps
    /\ Apply("exp", <<self, pow>>, exp_run(self, pow))

Exp == ExpTo(Exponents)

ToBytes ==
    /\ steps < MaxSteps
    /\ buf' = to_bytes(self)
    /\ args' = <<self>>
    /\ op' = "to_bytes"
    /\ steps' = steps + 1
    /\ muls' = 0
    /\ UNCHANGED <<self, res>>

\* from_bytes(arr) returned r: an Ok replaces self by the decoded element.
Decode(name, arr, r) ==
    /\ buf' = arr
    /\ res' = r
    /\ self' = IF r.ok THEN r.fe ELSE self
    /\ args' = <<>>
    /\ op' = name
    /\ steps' = steps + 1
    /\ muls' = 0

FromBytesOf(buffers) == \E arr \in buffers \cup {buf} :
    /\ steps < MaxSteps
    /\ Decode("from_bytes", arr, from_bytes(arr))

TryFromOf(buffers) == \E bytes \in buffers \cup {buf} :
    /\ steps < MaxSteps
    /\ Decode("from_bytes", bytes, try_from(bytes))

FromBytes == FromBytesOf(TestBuffers)

TryFrom == TryFromOf(TestBuffers)

Next ==
    \/ New \/ FromU64 \/ FromU32 \/ FromU16 \/ FromU8
    \/ Add \/ AddAssign \/ Sub \/ SubAssign \/ Mul \/ MulAssign
    \/ Neg \/ Double \/ Square \/ Cube
    \/ Inv \/ Div \/ DivAssign \/ Exp
    \/ ToBytes \/ FromBytes \/ TryFrom

\* Sequences of operations on one FieldElement.
Spec == Init /\ [][Next]_vars

\* exp, inv and div on their own, on the inputs PowBases, PowExponents and
\* PowDivisors.
InitPow ==
    /\ self \in PowBases
    /\ args = <<>>
    /\ op = "new"
    /\ buf = ZeroBytes
    /\ res = None
    /\ steps = 0
    /\ muls = 0

ExpPow == ExpTo(PowExponents)

DivPow == DivBy(PowDivisors)

NextPow == ExpPow \/ Inv \/ DivPow

SpecPow == InitPow /\ [][NextPow]_vars

\* to_bytes, from_bytes and try_from on their own, on the inputs EdgeBuffers.
FromBytesEdge == FromBytesOf(EdgeBuffers)

TryFromEdge == TryFromOf(EdgeBuffers)

NextBytes == ToBytes \/ FromBytesEdge \/ TryFromEdge

SpecBytes == Init /\ [][NextBytes]_vars

\* ------------------------------------------------------------ properties
\* v is a u64: four limbs of 16 bits.
IsU64(v) == Len(v) = 4 /\ \A i \in 1 .. 4 : v[i] \in Limb

\* 0 <= fe.value < PRIME
Canonical(fe) == IsU64(fe.value) /\ Lt(fe.value, PRIME)

PrimeMinus(n) == wrapping_sub(PRIME, Small(n))

\* C1: every FieldElement that exists (the one the caller holds, the operands
\* of the last operation, the element a successful from_bytes returned)
\* satisfies 0 <= value < PRIME, after any sequence of operations.
C1_CanonicalRange ==
    /\ Canonical(self)
    /\ \A i \in DOMAIN args : Canonical(args[i])
    /\ res.ok => Canonical(res.fe)

\* C1 witness: a second operation, the negation of the ONE that exp returned,
\* has produced PRIME - 1.
C1_Witness ==
    /\ steps = 2
    /\ op = "neg"
    /\ args = <<ONE>>
    /\ self.value = PrimeMinus(1)

\* C2: (a + b).value = (a.value + b.value) mod PRIME, whether the 64-bit sum
\* stays below PRIME, lies in [PRIME, 2^64), or overflows 64 bits.
C2_AddIsSumModPrime ==
    op = "add" =>
        /\ Canonical(self)
        /\ self.value = RefMod(AddC(args[1].value, args[2].value, 0))

\* C2 witness: the sum overflowed 64 bits: new(PRIME-1) + new(PRIME-2) = new(PRIME-3).
C2_Witness ==
    /\ op = "add"
    /\ args = <<new(PrimeMinus(1)), new(PrimeMinus(2))>>
    /\ overflowing_add(args[1].value, args[2].value).flag
    /\ self.value = PrimeMinus(3)

\* C3: (a - b).value = (a.value - b.value) mod PRIME in [0, PRIME): the plain
\* difference when a.value >= b.value, and the difference plus exactly one
\* PRIME when the 64-bit subtraction borrows.
C3_SubIsDifferenceModPrime ==
    op = "sub" =>
        /\ Canonical(self)
        /\ IF Ge(args[1].value, args[2].value)
           THEN AddC(self.value, args[2].value, 0) = args[1].value \o <<0>>
           ELSE AddC(self.value, args[2].value, 0) = AddC(args[1].value, PRIME, 0)

\* C3 witness: the subtraction borrowed: new(15) - new(35) = new(PRIME-20).
C3_Witness ==
    /\ op = "sub"
    /\ args = <<new(Small(15)), new(Small(35))>>
    /\ overflowing_sub(args[1].value, args[2].value).flag
    /\ self.value = PrimeMinus(20)

\* C4: (a * b).value = (a.value * b.value) mod PRIME, the product being the
\* full 128-bit product; a * ONE = a, a * ZERO = ZERO, and
\* new(PRIME-1) * new(PRIME-1) = ONE.
C4_MulIsProductModPrime ==
    op = "mul" =>
        /\ Canonical(self)
        /\ self.value = RefMod(MulFull(args[1].value, args[2].value))
        /\ args[2] = ONE => self = args[1]
        /\ args[2] = ZERO => self = ZERO
        /\ (args[1].value = PrimeMinus(1) /\ args[2].value = PrimeMinus(1))
               => self = ONE

\* C4 witness: the largest product, new(PRIME-1) * new(PRIME-1), gave ONE.
C4_Witness ==
    /\ op = "mul"
    /\ args = <<new(PrimeMinus(1)), new(PrimeMinus(1))>>
    /\ self = ONE

\* The u128 handed to reduce by the last operation, a mul or a square: the
\* product of two canonical values.
LastProduct ==
    widening_mul(args[1].value,
                 IF op = "mul" THEN args[2].value ELSE args[1].value)

\* The steps of reduce on x are exact: no wrap-around loses anything.
\*  - low - high, plus PRIME exactly once when it borrowed, is diff;
\*  - (middle << 32) - middle does not overflow 64 bits;
\*  - diff + product, minus PRIME exactly once when it carried, is result.
ReduceStepsExact(st) ==
    /\ IF st.under
       THEN AddC(st.diff, st.high, 0) = AddC(st.low, PRIME, 0)
       ELSE AddC(st.diff, st.high, 0) = st.low \o <<0>>
    /\ ~st.product_overflow
    /\ AddC(st.product, st.middle, 0) = <<0, 0, st.middle[1], st.middle[2], 0>>
    /\ IF st.over
       THEN AddC(st.result, PRIME, 0) = AddC(st.diff, st.product, 0)
       ELSE st.result \o <<0>> = AddC(st.diff, st.product, 0)

\* C10 as stated: for every product x of two canonical values,
\* reduce(x) < PRIME and reduce(x) = x mod PRIME.
C10_ReduceIsCanonical ==
    op \in {"mul", "square"} =>
        /\ Lt(reduce(LastProduct), PRIME)
        /\ reduce(LastProduct) = RefMod(LastProduct)

\* C10 as amended: for every product x of two canonical values, reduce(x) is
\* a u64 congruent to x modulo PRIME (it may lie in [PRIME, 2^64), and
\* new(reduce(x)) is x mod PRIME); (middle << 32) - middle never overflows 64
\* bits and each of the borrow step and the carry step applies at most one
\* PRIME correction.
C10_ReduceIsCongruent ==
    op \in {"mul", "square"} =>
        /\ IsU64(reduce(LastProduct))
        /\ RefMod(reduce(LastProduct)) = RefMod(LastProduct)
        /\ new(reduce(LastProduct)).value = RefMod(LastProduct)
        /\ ReduceStepsExact(reduce_steps(LastProduct))

\* C10 witness: reduce was handed (PRIME-1)^2, borrowed in low - high, and
\* returned PRIME + 1, which is not canonical.
C10_Witness ==
    /\ op = "mul"
    /\ args = <<new(PrimeMinus(1)), new(PrimeMinus(1))>>
    /\ reduce_steps(LastProduct).under
    /\ reduce(LastProduct) = <<2, 0, W - 1, W - 1>>

\* Further cases of reduce that the sequences reach: a carry of
\* diff + product, and both a borrow and a carry.
ReduceCarryReached ==
    /\ op \in {"mul", "square"}
    /\ reduce_steps(LastProduct).over
    /\ ~reduce_steps(LastProduct).under

ReduceBorrowAndCarryReached ==
    /\ op \in {"mul", "square"}
    /\ reduce_steps(LastProduct).over
    /\ reduce_steps(LastProduct).under

C9_ExpIsPower ==
    op = "exp" =>
        /\ Canonical(self)
        /\ self.value = RefPow(args[1].value, args[2].value)
        /\ args[2] = ZERO => self = ONE
        /\ (args[1] = ZERO /\ args[2] # ZERO) => self = ZERO
        /\ args[2] = ONE => self = args[1]

\* C9 witness: new(69).exp(new(6)) returned new(107918163081), which is
\* 0x19206C7C89; the exponent has bit 0 clear and two later bits set.
C9_Witness ==
    /\ op = "exp"
    /\ args = <<new(Small(69)), new(Small(6))>>
    /\ self.value = <<31881, 8300, 25, 0>>

\* The integer a byte array encodes, least significant byte first, as a
\* u64: Horner's rule from the last byte down.
RECURSIVE RefLE(_)
RefLE(st) ==
    IF st.k = 0 THEN st.acc
    ELSE RefLE([acc |-> SubSeq(MulRow(st.acc, 256, st.b[st.k]), 1, 4),
                b |-> st.b, k |-> st.k - 1])

LittleEndianValue(b) == RefLE([acc |-> Zero64, b |-> b, k |-> 8])

C6_RoundTripReached ==
    /\ op = "from_bytes"
    /\ steps = 2
    /\ buf = to_bytes(new(PrimeMinus(1)))
    /\ res = Ok(new(PrimeMinus(1)))

\* C7 as stated: to_bytes(new(PRIME-1)) = [255,255,255,255,0,0,0,0] and
\* to_bytes(ONE) = [0,0,0,0,0,0,0,1].
C7_ToBytesScenario ==
    op = "to_bytes" =>
        /\ args[1].value = PrimeMinus(1) => buf = <<255, 255, 255, 255, 0, 0, 0, 0>>
        /\ args[1] = ONE => buf = <<0, 0, 0, 0, 0, 0, 0, 1>>

\* What to_bytes returns for those two elements: the least significant
\* byte comes first.
C7_ToBytesObserved ==
    op = "to_bytes" =>
        /\ args[1].value = PrimeMinus(1) => buf = <<0, 0, 0, 0, 255, 255, 255, 255>>
        /\ args[1] = ONE => buf = <<1, 0, 0, 0, 0, 0, 0, 0>>

\* C7: to_bytes(new(PRIME-1)) has returned [0,0,0,0,255,255,255,255].
C7_Witness ==
    /\ op = "to_bytes"
    /\ args = <<new(PrimeMinus(1))>>
    /\ buf = <<0, 0, 0, 0, 255, 255, 255, 255>>

\* C8 as stated: from_bytes([255,255,255,255,0,0,0,1]) fails, and
\* from_bytes([255,255,255,255,0,0,0,0]) = Ok(new(PRIME-1)).
C8_FromBytesScenario ==
    op = "from_bytes" =>
        /\ buf = <<255, 255, 255, 255, 0, 0, 0, 1>> => ~res.ok
        /\ buf = <<255, 255, 255, 255, 0, 0, 0, 0>> => res = Ok(new(PrimeMinus(1)))

\* What from_bytes returns for those two buffers: 0x01000000FFFFFFFF and
\* 0x00000000FFFFFFFF, both below PRIME and both accepted.
C8_FromBytesObserved ==
    op = "from_bytes" =>
        /\ buf = <<255, 255, 255, 255, 0, 0, 0, 1>> =>
               res = Ok(new(<<W - 1, W - 1, 0, 256>>))
        /\ buf = <<255, 255, 255, 255, 0, 0, 0, 0>> =>
               res = Ok(new(<<W - 1, W - 1, 0, 0>>))

\* C8: from_bytes([255,255,255,255,0,0,0,1]) has returned Ok of the element
\* 0x01000000FFFFFFFF.
C8_Witness ==
    /\ op = "from_bytes"
    /\ buf = <<255, 255, 255, 255, 0, 0, 0, 1>>
    /\ res.ok
    /\ res.fe.value = <<W - 1, W - 1, 0, 256>>

\* The position of the highest set bit of the u64 n, plus one; 0 for n = 0.
BitLength(n) ==
    IF n = Zero64 THEN 0
    ELSE 1 + CHOOSE k \in 0 .. 63 :
                 BitAt(n, k) = 1 /\ \A j \in (k + 1) .. 63 : BitAt(n, j) = 0

\* The number of set bits of the u64 n.
HammingWeight(n) == Cardinality({k \in 0 .. 63 : BitAt(n, k) = 1})

\* C11: inv makes exactly 72 calls of Mul::mul (squarings, and those inside
\* cube and exp_acc, included) whatever its nonzero input is, while the
\* number exp makes varies with the exponent: none when pow or the base is
\* ZERO, and otherwise one squaring for every bit of pow above bit 0 plus
\* one multiplication for every set bit above bit 0.
C11_InvMakes72Multiplications ==
    /\ op = "inv" => muls = 72
    /\ op = "exp" =>
           muls = IF args[2] = ZERO \/ args[1] = ZERO THEN 0
                  ELSE (BitLength(args[2].value) - 1)
                       + (HammingWeight(args[2].value) - BitAt(args[2].value, 0))

\* C11 witness: new(PRIME-1).inv() returned new(PRIME-1) after 72
\* multiplications.
C11_Witness ==
    /\ op = "inv"
    /\ args = <<new(PrimeMinus(1))>>
    /\ self = new(PrimeMinus(1))
    /\ muls = 72

\* C11: exp made 2 multiplications for the exponent 2 and 125 for the
\* exponent PRIME - 2.
C11_ExpShortReached ==
    /\ op = "exp"
    /\ args[2] = new(Small(2))
    /\ muls = 2

C11_ExpLongReached ==
    /\ op = "exp"
    /\ args[2] = new(PrimeMinus(2))
    /\ muls = 125

====
